---------------------------- MODULE Spec2Model ----------------------------
(***************************************************************************)
(* Model of the two ingestion entry points of data-engineering-ethflow:    *)
(*   cloud : lambda_handler  (scripts/lambda/.../infura_integration/app.py)*)
(*   local : main            (scripts/data_retrieval.py)                   *)
(* One run is a sequence of steps (pc), one step per I/O call or branch of *)
(* the entry point.  The checkpoint store and the sink outlive the runs.   *)
(***************************************************************************)
EXTENDS Integers, Sequences, FiniteSets, TLC

(***************************************************************************)
(* Bounds of the model.                                                    *)
(***************************************************************************)
\* Block numbers the endpoint reports are 1..MaxBlock (0 is the "no
\* progress" value of the checkpoint, and the endpoint is Ethereum mainnet).
MaxBlock == 3
\* Number of runs (invocations of the entry point) in one behaviour.
MaxRuns == 2
\* The flush threshold MAX_SIZE_BYTES of each variant, in the model's size
\* unit (app.py:21 is 20 MiB, data_retrieval.py:14 is 100 MiB).
ThresholdCloud == 4
ThresholdLocal == 4

\* Size estimates of one fetched block without its transactions, and the
\* number of transactions a block carries.
BlockSizes == {1, 2}
TxCounts == {0, 2}

\* Python's None, for a value that is otherwise a natural number.
None == -1

Variants == {"cloud", "local"}

VARIABLES
    variant,                  \* which entry point this deployment runs
    threshold,                \* the configured MAX_SIZE_BYTES
    codec,                    \* a record under conversion, and its result
    store,                    \* checkpoint store: the rows / the S3 object
    sink,                     \* log of the artifacts written, in order
    clock,                    \* wall clock, in seconds
    runs,                     \* runs started so far
    pc,                       \* position of the run in the entry point
    job_start_time,
    blocks_data,
    transactions_data,
    blocks_file_index,
    transactions_file_index,
    previous_block_number,
    latest_block_number,
    current_block_number,
    exit,                     \* what the entry point gave its caller
    requests,                 \* history: block numbers requested this run
    start,                    \* history: first block number of the range
    storeAtStart,             \* history: store when the range was determined
    saves,                    \* history: checkpoint values saved this run
    sinkBase,                 \* history: Len(sink) when the run started
    failed,                   \* history: block whose fetch/conversion raised
    crossed,                  \* history: threshold crossings seen this run
    last_response,            \* history: the last answer to a block fetch
    statusLog                 \* history: <<outcome, status>> of ended runs

vars == <<variant, threshold, codec, store, sink, clock, runs, pc,
          job_start_time, blocks_data, transactions_data, blocks_file_index, transactions_file_index,
          previous_block_number, latest_block_number, current_block_number,
          exit, requests, start, storeAtStart, saves, sinkBase, failed,
          crossed, last_response, statusLog>>

\* What no step of a run changes.
fixed == <<variant, threshold, codec>>

locals == <<job_start_time, blocks_data, transactions_data, blocks_file_index,
            transactions_file_index, previous_block_number,
            latest_block_number, current_block_number>>

history == <<requests, start, storeAtStart, saves, sinkBase, failed, crossed,
             last_response>>

(***************************************************************************)
(* Helpers on sequences.                                                   *)
(***************************************************************************)
RECURSIVE SumSizes(_)
SumSizes(s) == IF s = <<>> THEN 0 ELSE Head(s).size + SumSizes(Tail(s))

Last(s) == s[Len(s)]

Nums(s) == [i \in 1..Len(s) |-> s[i].num]

(***************************************************************************)
(* Size estimate.                                                          *)
(***************************************************************************)
\* sys.getsizeof of an empty list, in the model's size unit.
EmptyListSize == 1

\* get_size(obj): the list's own size plus the size of every item.
get_size(batch) == EmptyListSize + SumSizes(batch)

\* The threshold each file sets.
ConfiguredThreshold ==
    IF variant = "cloud" THEN ThresholdCloud ELSE ThresholdLocal

MAX_SIZE_BYTES == threshold

(***************************************************************************)
(* Checkpoint store.  store is the sequence of rows of the checkpoint      *)
(* table (local) or the content of the last_block.json object (cloud);     *)
(* <<>> is an empty table / a missing key.                                 *)
(***************************************************************************)
\* load_checkpoint: fetchone() of the table, None when there is no row.
load_checkpoint == IF store = <<>> THEN None ELSE Head(store)

\* get_last_block: the stored last_block, None on NoSuchKey.
get_last_block == IF store = <<>> THEN None ELSE Head(store)

\* The value a run reads from the store.
Persisted == IF store = <<>> THEN None ELSE Head(store)

\* "not previous_block_number": None and 0 are both falsy.
NoCheckpoint(p) == p = None \/ p = 0

(***************************************************************************)
(* Exceptions and the except clauses of the two files.                     *)
(***************************************************************************)
Exc(cls, status) == [cls |-> cls, status |-> status]

\* isinstance(e, cls) for the classes the code meets.
IsInstance(e, cls) ==
    \/ cls = e.cls
    \/ cls = "Exception"
    \/ cls = "RequestException" /\ e.cls = "HTTPError"

\* Names an except clause can resolve: the builtins, and what each file
\* imports.  app.py imports neither HTTPError nor RequestException (nor
\* time); data_retrieval.py names requests.RequestException.
CloudScope == {"ValueError", "Exception"}
LocalScope == {"RequestException", "ValueError", "Exception"}

\* Python's matching of a raised exception against the except clauses of a
\* try statement, in order: a clause whose class name does not resolve
\* raises NameError out of the statement; the result is <<clause, e>> for
\* the clause that handles e, or <<"", e'>> for the exception that leaves.
RECURSIVE Match(_, _, _)
Match(clauses, scope, e) ==
    IF clauses = <<>> THEN <<"", e>>
    ELSE IF Head(clauses) \notin scope THEN <<"", Exc("NameError", 0)>>
    ELSE IF IsInstance(e, Head(clauses)) THEN <<Head(clauses), e>>
    ELSE Match(Tail(clauses), scope, e)

\* fetch_block_data_with_rate_limit_retry's try statement around
\* fetch_block_data: "retry" when the 429 clause continues the loop, else
\* the exception that leaves the function.
RetryClauses == <<"HTTPError", "Exception">>
RateLimitRetry(e) ==
    LET m == Match(RetryClauses, CloudScope, e) IN
    IF m[1] = "HTTPError" /\ e.status = 429 THEN <<"retry", e>>
    ELSE <<"raise", m[2]>>

\* What the entry point gives its caller.
NoExit == [kind |-> "none", statusCode |-> 0, error |-> "", message |-> "",
           last_block |-> None]

Returned(code, error, message, last) ==
    [kind |-> "returned", statusCode |-> code, error |-> error,
     message |-> message, last_block |-> last]

Raised(e) ==
    [kind |-> "raised", statusCode |-> 0, error |-> e.cls, message |-> e.cls,
     last_block |-> None]

\* lambda_handler's except clauses.
HandlerClauses == <<"HTTPError", "RequestException", "ValueError", "Exception">>
lambda_handler_except(e) ==
    LET m == Match(HandlerClauses, CloudScope, e) IN
    CASE m[1] = "" -> Raised(m[2])
      [] m[1] = "HTTPError" /\ e.status = 429 ->
            Returned(429, "Rate limit exceeded", e.cls, None)
      [] m[1] = "HTTPError" /\ e.status # 429 ->
            Returned(e.status, "HTTP error", e.cls, None)
      [] m[1] = "RequestException" ->
            Returned(500, "Request error", e.cls, None)
      [] m[1] = "ValueError" ->
            Returned(500, "Error processing response", e.cls, None)
      [] m[1] = "Exception" ->
            Returned(500, "Unexpected error", e.cls, None)

\* main's except clauses: each logs a line and main returns None.
MainClauses == <<"RequestException", "ValueError", "Exception">>
main_except(e) ==
    LET m == Match(MainClauses, LocalScope, e) IN
    CASE m[1] = "" -> Raised(m[2])
      [] m[1] = "RequestException" ->
            Returned(0, "Error fetching data from Infura", e.cls, None)
      [] m[1] = "ValueError" ->
            Returned(0, "Error processing response", e.cls, None)
      [] m[1] = "Exception" ->
            Returned(0, "Unexpected error", e.cls, None)

EntryExcept(e) ==
    IF variant = "cloud" THEN lambda_handler_except(e) ELSE main_except(e)

\* The return of a run that reached its end: lambda_handler returns 200 and
\* the latest block number; main logs "Checkpoint updated" and returns None.
EntryReturn ==
    IF variant = "cloud"
    THEN Returned(200, "", "", latest_block_number)
    ELSE Returned(0, "", "Checkpoint updated", None)


(***************************************************************************)
(* Endpoint responses.                                                     *)
(***************************************************************************)
\* What raise_for_status / the result check of a JSON-RPC call can raise:
\* a 429 and another HTTP status (HTTPError), a transport failure
\* (RequestException), a body without "result" (ValueError).
FetchErrors ==
    {Exc("HTTPError", 429), Exc("HTTPError", 503),
     Exc("RequestException", 0), Exc("ValueError", 0)}

NoExc == Exc("", 0)

\* Answers to eth_blockNumber: a block number, or an error.
LatestResponses ==
    [kind : {"number"}, n : 1..MaxBlock, e : {NoExc}]
    \cup [kind : {"error"}, n : {0}, e : FetchErrors]

\* Answers to eth_getBlockByNumber: a block object, a null result, an error.
BlockResponses ==
    [kind : {"block"}, size : BlockSizes, ntx : TxCounts, e : {NoExc}]
    \cup [kind : {"null"}, size : {0}, ntx : {0}, e : {NoExc}]
    \cup [kind : {"error"}, size : {0}, ntx : {0}, e : FetchErrors]

(***************************************************************************)
(* Records of a batch.  tx = 0 for a block, i >= 1 for the block's i-th    *)
(* transaction; form tells what the record is.                             *)
(***************************************************************************)
\* data["result"] as fetch_block_data returns it: the block with its
\* transactions inline, or None.
RawRecord(n, resp) ==
    IF resp.kind = "null"
    THEN [num |-> n, tx |-> 0, form |-> "null", size |-> 0]
    ELSE [num |-> n, tx |-> 0, form |-> "raw", size |-> resp.size + resp.ntx]

\* convert_transaction of the block's i-th transaction.
convert_transaction(n, i) ==
    [num |-> n, tx |-> i, form |-> "normalized", size |-> 1]

\* convert_block_data that hands the block back as it came.
convert_block_data_unconverted(n, resp) ==
    [block |-> [num |-> n, tx |-> 0, form |-> "raw", size |-> resp.size],
     transactions |-> [i \in 1..resp.ntx |-> convert_transaction(n, i)]]

\* convert_block_data followed by main's detaching of the transactions:
\* the readable block without "transactions", and the converted list.
convert_block_data(n, resp) ==
    [block |-> [num |-> n, tx |-> 0, form |-> "normalized", size |-> resp.size],
     transactions |-> [i \in 1..resp.ntx |-> convert_transaction(n, i)]]

(***************************************************************************)
(* Sink.                                                                   *)
(***************************************************************************)
\* The three name patterns of the code.
CloudName(stream, idx) ==
    [dir |-> "blocks", ts |-> job_start_time, stream |-> stream, idx |-> idx]
LocalThresholdName(stream, idx) ==
    [dir |-> "", ts |-> None, stream |-> stream, idx |-> idx]
LocalFinalName(stream, idx) ==
    [dir |-> "./output", ts |-> job_start_time, stream |-> stream, idx |-> idx]

\* save_to_json makes the directory of the path when os.path.exists says it
\* is missing; os.path.dirname of a bare file name is "", which never
\* exists and which os.makedirs refuses (FileNotFoundError).
save_to_json_raises(name) == name.dir = ""

Artifact(name, recs) == [name |-> name, recs |-> recs]

\* Artifacts this run wrote.
RunArtifacts == SubSeq(sink, sinkBase + 1, Len(sink))

(***************************************************************************)
(* The run.                                                                *)
(***************************************************************************)
\* No conversion under way.
NoCodec == [kind |-> "none"]

\* The state before the first run, but for the configuration.
InitState ==
    /\ variant \in Variants
    /\ store \in {<<>>} \cup {<<c>> : c \in 1..MaxBlock}
    /\ sink = <<>>
    /\ clock = 0
    /\ runs = 0
    /\ pc = "idle"
    /\ job_start_time = None
    /\ blocks_data = <<>>
    /\ transactions_data = <<>>
    /\ blocks_file_index = 1
    /\ transactions_file_index = 1
    /\ previous_block_number = None
    /\ latest_block_number = None
    /\ current_block_number = None
    /\ exit = NoExit
    /\ requests = <<>>
    /\ start = None
    /\ storeAtStart = store
    /\ saves = <<>>
    /\ sinkBase = 0
    /\ failed = None
    /\ crossed = 0
    /\ last_response = NoExc
    /\ statusLog = {}

Init ==
    /\ InitState
    /\ threshold = ConfiguredThreshold
    /\ codec = NoCodec

\* Thresholds a deployment may configure: one that even an empty list
\* reaches, one that any record reaches, and the one the file sets.
ThresholdValues ==
    {EmptyListSize, EmptyListSize + 1, ConfiguredThreshold}

\* The state before the first run, under any configured threshold.
InitAnyThreshold ==
    /\ InitState
    /\ threshold \in ThresholdValues
    /\ codec = NoCodec

\* The three outcomes of a run that raised: progress is a checkpoint saved
\* in this run.
FailureOutcome == IF saves = <<>> THEN "total" ELSE "partial"

\* Raise with a checkpoint save of the block in flight on the way out.
RaiseSaving(e) ==
    /\ pc' = "done"
    /\ exit' = EntryExcept(e)
    /\ statusLog' = statusLog \cup {<<FailureOutcome, EntryExcept(e)>>}
    /\ store' = <<current_block_number>>
    /\ UNCHANGED <<fixed, sink, clock, runs, locals, start, storeAtStart,
                   saves, sinkBase>>

\* An exception reaches the entry point's except clauses: nothing is saved,
\* nothing is written, the run ends.
Raise(e) ==
    /\ pc' = "done"
    /\ exit' = EntryExcept(e)
    /\ statusLog' = statusLog \cup {<<FailureOutcome, EntryExcept(e)>>}
    /\ UNCHANGED <<fixed, store, sink, clock, runs, locals, start,
                   storeAtStart, saves, sinkBase>>

\* Entry: the locals of lambda_handler / main, job_start_time from the
\* clock (one-second resolution; the next run may start in the same second).
StartRun ==
    /\ pc \in {"idle", "done"}
    /\ runs < MaxRuns
    /\ \E t \in {clock, clock + 1} :
         /\ runs = 0 => t = clock
         /\ clock' = t
         /\ job_start_time' = t
    /\ runs' = runs + 1
    /\ blocks_data' = <<>>
    /\ transactions_data' = <<>>
    /\ blocks_file_index' = 1
    /\ transactions_file_index' = 1
    /\ previous_block_number' = None
    /\ latest_block_number' = None
    /\ current_block_number' = None
    /\ exit' = NoExit
    /\ requests' = <<>>
    /\ start' = None
    /\ storeAtStart' = store
    /\ saves' = <<>>
    /\ sinkBase' = Len(sink)
    /\ failed' = None
    /\ crossed' = 0
    /\ last_response' = NoExc
    /\ pc' = IF variant = "cloud" THEN "get_last_block" ELSE "init_db"
    /\ UNCHANGED <<fixed, store, sink, statusLog>>

\* initialize_checkpoint_db: a row 0 when the table is empty.
initialize_checkpoint_db ==
    /\ pc = "init_db"
    /\ store' = IF Len(store) = 0 THEN <<0>> ELSE store
    /\ storeAtStart' = store'
    /\ pc' = "fetch_latest"
    /\ UNCHANGED <<fixed, sink, clock, runs, locals, exit, requests, start,
                   saves, sinkBase, failed, crossed, last_response,
                   statusLog>>

\* previous_block_number = get_last_block()
GetLastBlock ==
    /\ pc = "get_last_block"
    /\ previous_block_number' = get_last_block
    /\ pc' = "fetch_latest"
    /\ UNCHANGED <<fixed, store, sink, clock, runs, job_start_time,
                   blocks_data, transactions_data, blocks_file_index,
                   transactions_file_index, latest_block_number,
                   current_block_number, exit, history, statusLog>>

\* latest_block_number = fetch_latest_block_number(url, HEADERS)
fetch_latest_block_number ==
    /\ pc = "fetch_latest"
    /\ \E resp \in LatestResponses :
         IF resp.kind = "number"
         THEN /\ latest_block_number' = resp.n
              /\ pc' = IF variant = "cloud" THEN "range" ELSE "load_checkpoint"
              /\ UNCHANGED <<fixed, store, sink, clock, runs, job_start_time,
                             blocks_data, transactions_data, blocks_file_index,
                             transactions_file_index, previous_block_number,
                             current_block_number, exit, history, statusLog>>
         ELSE /\ Raise(resp.e)
              /\ UNCHANGED <<requests, failed, crossed, last_response>>

\* previous_block_number = load_checkpoint()
LoadCheckpoint ==
    /\ pc = "load_checkpoint"
    /\ previous_block_number' = load_checkpoint
    /\ pc' = "range"
    /\ UNCHANGED <<fixed, store, sink, clock, runs, job_start_time,
                   blocks_data, transactions_data, blocks_file_index,
                   transactions_file_index, latest_block_number,
                   current_block_number, exit, history, statusLog>>

\* StartBlock taking only None, not 0, for a missing checkpoint.
StartBlockZeroIsCheckpoint(previous, latest) ==
    IF previous = None THEN latest ELSE previous + 1

\* StartBlock resuming at the checkpoint itself.
StartBlockInclusive(previous, latest) ==
    IF NoCheckpoint(previous) THEN latest ELSE previous

\* The first block of the range.
StartBlock(previous, latest) ==
    IF NoCheckpoint(previous) THEN latest ELSE previous + 1

\* if not previous_block_number: ... else: ...
DetermineRange ==
    /\ pc = "range"
    /\ current_block_number' =
         StartBlock(previous_block_number, latest_block_number)
    /\ start' = current_block_number'
    /\ pc' = "loop"
    /\ UNCHANGED <<fixed, store, sink, clock, runs, job_start_time,
                   blocks_data, transactions_data, blocks_file_index,
                   transactions_file_index, previous_block_number,
                   latest_block_number, exit, requests, storeAtStart, saves,
                   sinkBase, failed, crossed,
                   last_response, statusLog>>

\* LoopTest with a strict comparison.
LoopTestExclusive ==
    /\ pc = "loop"
    /\ pc' = IF current_block_number < latest_block_number
             THEN "fetch" ELSE "final_blocks"
    /\ UNCHANGED <<fixed, store, sink, clock, runs, locals, exit, history,
                   statusLog>>

\* while current_block_number <= latest_block_number
LoopTest ==
    /\ pc = "loop"
    /\ pc' = IF current_block_number <= latest_block_number
             THEN "fetch" ELSE "final_blocks"
    /\ UNCHANGED <<fixed, store, sink, clock, runs, locals, exit, history,
                   statusLog>>

\* The loop body up to the size estimates: the fetch (in the cloud run
\* through fetch_block_data_with_rate_limit_retry), the conversion (local
\* run) and the appends.
FetchBlock ==
    /\ pc = "fetch"
    /\ requests' = Append(requests, current_block_number)
    /\ \E resp \in BlockResponses :
         /\ last_response' = (IF resp.kind = "error" THEN resp.e
                               ELSE Exc(resp.kind, 0))
         /\ IF resp.kind = "error"
            THEN IF variant = "cloud" /\ RateLimitRetry(resp.e)[1] = "retry"
                 THEN \* time.sleep(...); continue
                      UNCHANGED <<fixed, store, sink, clock, runs, pc, locals,
                                  exit, start, storeAtStart, saves, sinkBase,
                                  failed, crossed, statusLog>>
                 ELSE /\ Raise(IF variant = "cloud"
                               THEN RateLimitRetry(resp.e)[2] ELSE resp.e)
                      /\ failed' = current_block_number
                      /\ UNCHANGED crossed
            ELSE IF variant = "cloud"
            THEN \* blocks_data.append(block_data)
                 /\ blocks_data' =
                      Append(blocks_data, RawRecord(current_block_number, resp))
                 /\ pc' = "check_blocks"
                 /\ UNCHANGED <<fixed, store, sink, clock, runs, job_start_time,
                                transactions_data, blocks_file_index,
                                transactions_file_index, previous_block_number,
                                latest_block_number, current_block_number, exit,
                                start, storeAtStart, saves, sinkBase, failed,
                                crossed, statusLog>>
            ELSE IF resp.kind = "null"
            THEN \* convert_block_data(None): None has no keys()
                 /\ Raise(Exc("AttributeError", 0))
                 /\ failed' = current_block_number
                 /\ UNCHANGED crossed
            ELSE LET readable == convert_block_data(current_block_number, resp) IN
                 /\ transactions_data' = transactions_data \o readable.transactions
                 /\ blocks_data' = Append(blocks_data, readable.block)
                 /\ pc' = "check_blocks"
                 /\ UNCHANGED <<fixed, store, sink, clock, runs, job_start_time,
                                blocks_file_index, transactions_file_index,
                                previous_block_number, latest_block_number,
                                current_block_number, exit, start, storeAtStart,
                                saves, sinkBase, failed, crossed, statusLog>>

\* if blocks_size >= MAX_SIZE_BYTES: the cloud run goes on to write the
\* batch; the local run calls save_to_json(blocks_data, "blocks_<i>.json").
CheckBlocksSize ==
    /\ pc = "check_blocks"
    /\ IF get_size(blocks_data) >= MAX_SIZE_BYTES
       THEN /\ crossed' = crossed + 1
            /\ IF variant = "cloud"
               THEN /\ pc' = "flush_write"
                    /\ UNCHANGED <<fixed, store, sink, clock, runs, locals,
                                   exit, requests, start, storeAtStart, saves,
                                   sinkBase, failed, last_response, statusLog>>
               ELSE IF save_to_json_raises(
                         LocalThresholdName("blocks", blocks_file_index))
               THEN /\ Raise(Exc("FileNotFoundError", 0))
                    /\ UNCHANGED <<requests, failed, last_response>>
               ELSE /\ sink' = Append(sink, Artifact(
                         LocalThresholdName("blocks", blocks_file_index),
                         blocks_data))
                    /\ blocks_data' = <<>>
                    /\ blocks_file_index' = blocks_file_index + 1
                    /\ pc' = "check_tx"
                    /\ UNCHANGED <<fixed, store, clock, runs, job_start_time,
                                   transactions_data, transactions_file_index,
                                   previous_block_number, latest_block_number,
                                   current_block_number, exit, requests, start,
                                   storeAtStart, saves, sinkBase, failed,
                                   last_response, statusLog>>
       ELSE /\ pc' = IF variant = "cloud" THEN "incr" ELSE "check_tx"
            /\ UNCHANGED <<fixed, store, sink, clock, runs, locals, exit,
                           history, statusLog>>

\* FlushWrite that loses the batch: nothing reaches the sink.
FlushWriteDropped ==
    /\ pc = "flush_write"
    /\ pc' = "flush_save"
    /\ UNCHANGED <<fixed, store, sink, clock, runs, locals, exit, history,
                   statusLog>>

\* save_blocks_data(blocks_data, file_name)
FlushWrite ==
    /\ pc = "flush_write"
    /\ sink' = Append(sink, Artifact(CloudName("blocks", blocks_file_index),
                                     blocks_data))
    /\ pc' = "flush_save"
    /\ UNCHANGED <<fixed, store, clock, runs, locals, exit, history,
                   statusLog>>

\* FlushSave that resets the batch without saving the checkpoint.
FlushSaveNoCheckpoint ==
    /\ pc = "flush_save"
    /\ blocks_data' = <<>>
    /\ blocks_file_index' = blocks_file_index + 1
    /\ pc' = "incr"
    /\ UNCHANGED <<fixed, store, sink, clock, runs, job_start_time,
                   transactions_data, transactions_file_index,
                   previous_block_number, latest_block_number,
                   current_block_number, exit, history, statusLog>>

\* save_last_block(current_block_number); blocks_data = [];
\* blocks_file_index += 1
FlushSave ==
    /\ pc = "flush_save"
    /\ store' = <<current_block_number>>
    /\ saves' = Append(saves, current_block_number)
    /\ blocks_data' = <<>>
    /\ blocks_file_index' = blocks_file_index + 1
    /\ pc' = "incr"
    /\ UNCHANGED <<fixed, sink, clock, runs, job_start_time,
                   transactions_data, transactions_file_index,
                   previous_block_number, latest_block_number,
                   current_block_number, exit, requests, start, storeAtStart,
                   sinkBase, failed, crossed,
                   last_response, statusLog>>

\* if transactions_size >= MAX_SIZE_BYTES:
\*     save_to_json(transactions_data, "transactions_<i>.json")
CheckTransactionsSize ==
    /\ pc = "check_tx"
    /\ IF get_size(transactions_data) >= MAX_SIZE_BYTES
       THEN /\ crossed' = crossed + 1
            /\ IF save_to_json_raises(
                    LocalThresholdName("transactions", transactions_file_index))
               THEN /\ Raise(Exc("FileNotFoundError", 0))
                    /\ UNCHANGED <<requests, failed, last_response>>
               ELSE /\ sink' = Append(sink, Artifact(
                         LocalThresholdName("transactions",
                                            transactions_file_index),
                         transactions_data))
                    /\ transactions_data' = <<>>
                    /\ transactions_file_index' = transactions_file_index + 1
                    /\ pc' = "incr"
                    /\ UNCHANGED <<fixed, store, clock, runs, job_start_time,
                                   blocks_data, blocks_file_index,
                                   previous_block_number, latest_block_number,
                                   current_block_number, exit, requests, start,
                                   storeAtStart, saves, sinkBase, failed,
                                   last_response, statusLog>>
       ELSE /\ pc' = "incr"
            /\ UNCHANGED <<fixed, store, sink, clock, runs, locals, exit,
                           history, statusLog>>

\* Increment that leaves the block number where it is.
IncrementStuck ==
    /\ pc = "incr"
    /\ current_block_number' = current_block_number
    /\ pc' = "loop"
    /\ UNCHANGED <<fixed, store, sink, clock, runs, job_start_time,
                   blocks_data, transactions_data, blocks_file_index,
                   transactions_file_index, previous_block_number,
                   latest_block_number, exit, history, statusLog>>

\* Increment that skips a block.
IncrementSkip ==
    /\ pc = "incr"
    /\ current_block_number' = current_block_number + 2
    /\ pc' = "loop"
    /\ UNCHANGED <<fixed, store, sink, clock, runs, job_start_time,
                   blocks_data, transactions_data, blocks_file_index,
                   transactions_file_index, previous_block_number,
                   latest_block_number, exit, history, statusLog>>

\* current_block_number += 1
Increment ==
    /\ pc = "incr"
    /\ current_block_number' = current_block_number + 1
    /\ pc' = "loop"
    /\ UNCHANGED <<fixed, store, sink, clock, runs, job_start_time,
                   blocks_data, transactions_data, blocks_file_index,
                   transactions_file_index, previous_block_number,
                   latest_block_number, exit, history, statusLog>>

\* The name of the artifact of the flush after the loop.
FinalName(stream, idx) ==
    IF variant = "cloud" THEN CloudName(stream, idx)
    ELSE LocalFinalName(stream, idx)

\* FinalBlocks without the "if blocks_data" guard.
FinalBlocksUnguarded ==
    /\ pc = "final_blocks"
    /\ sink' = Append(sink, Artifact(FinalName("blocks", blocks_file_index),
                                     blocks_data))
    /\ pc' = IF variant = "cloud" THEN "final_save" ELSE "final_tx"
    /\ UNCHANGED <<fixed, store, clock, runs, locals, exit, history,
                   statusLog>>

\* if blocks_data: write the remaining blocks
FinalBlocks ==
    /\ pc = "final_blocks"
    /\ sink' = IF blocks_data # <<>>
               THEN Append(sink, Artifact(FinalName("blocks", blocks_file_index),
                                          blocks_data))
               ELSE sink
    /\ pc' = IF variant = "cloud" THEN "final_save" ELSE "final_tx"
    /\ UNCHANGED <<fixed, store, clock, runs, locals, exit, history,
                   statusLog>>

\* if transactions_data: write the remaining transactions (local run)
FinalTransactions ==
    /\ pc = "final_tx"
    /\ sink' = IF transactions_data # <<>>
               THEN Append(sink, Artifact(
                        FinalName("transactions", transactions_file_index),
                        transactions_data))
               ELSE sink
    /\ pc' = "save_delete"
    /\ UNCHANGED <<fixed, store, clock, runs, locals, exit, history,
                   statusLog>>

\* save_last_block(latest_block_number): one put_object
save_last_block ==
    /\ pc = "final_save"
    /\ store' = <<latest_block_number>>
    /\ saves' = Append(saves, latest_block_number)
    /\ pc' = "return"
    /\ UNCHANGED <<fixed, sink, clock, runs, locals, exit, requests, start,
                   storeAtStart, sinkBase, failed, crossed,
                   last_response, statusLog>>

\* save_checkpoint(latest_block_number), first statement:
\* DELETE FROM checkpoint
SaveCheckpointDelete ==
    /\ pc = "save_delete"
    /\ store' = <<>>
    /\ pc' = "save_insert"
    /\ UNCHANGED <<fixed, sink, clock, runs, locals, exit, history,
                   statusLog>>

\* save_checkpoint(latest_block_number), second statement:
\* INSERT INTO checkpoint (block_number) VALUES (?)
SaveCheckpointInsert ==
    /\ pc = "save_insert"
    /\ store' = Append(store, latest_block_number)
    /\ saves' = Append(saves, latest_block_number)
    /\ pc' = "return"
    /\ UNCHANGED <<fixed, sink, clock, runs, locals, exit, requests, start,
                   storeAtStart, sinkBase, failed, crossed,
                   last_response, statusLog>>

\* The return of the try block.
Return ==
    /\ pc = "return"
    /\ exit' = EntryReturn
    /\ statusLog' = statusLog \cup {<<"success", EntryReturn>>}
    /\ pc' = "done"
    /\ UNCHANGED <<fixed, store, sink, clock, runs, locals, history>>

Next ==
    \/ StartRun
    \/ initialize_checkpoint_db
    \/ GetLastBlock
    \/ fetch_latest_block_number
    \/ LoadCheckpoint
    \/ DetermineRange
    \/ LoopTest
    \/ FetchBlock
    \/ CheckBlocksSize
    \/ FlushWrite
    \/ FlushSave
    \/ CheckTransactionsSize
    \/ Increment
    \/ FinalBlocks
    \/ FinalTransactions
    \/ save_last_block
    \/ SaveCheckpointDelete
    \/ SaveCheckpointInsert
    \/ Return

Spec == Init /\ [][Next]_vars

\* What the caller sees of a run that was interrupted.
Killed == [kind |-> "killed", statusCode |-> 0, error |-> "", message |-> "",
           last_block |-> None]

\* The host ends the run between two steps (the process is killed, the
\* invocation times out): the run's memory is lost, the store and the sink
\* stay as they are.  A behaviour has at most one interrupted run.
Interrupt ==
    /\ pc \notin {"idle", "done"}
    /\ <<"killed", Killed>> \notin statusLog
    /\ pc' = "done"
    /\ exit' = Killed
    /\ statusLog' = statusLog \cup {<<"killed", Killed>>}
    /\ UNCHANGED <<fixed, store, sink, clock, runs, locals, history>>

NextCrash == Next \/ Interrupt

\* The runs, each of which may be interrupted at any step.
SpecCrash == Init /\ [][NextCrash]_vars

\* The runs under any configured threshold.
SpecAnyThreshold == InitAnyThreshold /\ [][Next]_vars

(***************************************************************************)
(* Properties.                                                             *)
(***************************************************************************)
\* The run ended by the return of the try block.
RunSucceeded == pc = "done" /\ exit = EntryReturn

\* The run ended by an exception.
RunFailed == pc = "done" /\ exit # EntryReturn

\* The checkpoint as a number: a missing value counts as 0, as the code
\* treats it.
CkptValue(st) == IF st = <<>> THEN 0 ELSE Head(st)

\* Block n is in an artifact this run wrote: the record the endpoint
\* answered for n, whatever its form (raw, normalized, null).
Written(n) ==
    \E i \in 1..Len(RunArtifacts) :
       \E j \in 1..Len(RunArtifacts[i].recs) :
          RunArtifacts[i].recs[j].num = n /\ RunArtifacts[i].recs[j].tx = 0

\* Record r is in an artifact this run wrote.
InSink(r) ==
    \E i \in 1..Len(RunArtifacts) :
       \E j \in 1..Len(RunArtifacts[i].recs) : RunArtifacts[i].recs[j] = r

\* The artifacts of one stream this run wrote, in order.
RECURSIVE StreamArtifacts(_, _)
StreamArtifacts(arts, stream) ==
    IF arts = <<>> THEN <<>>
    ELSE IF Head(arts).name.stream = stream
         THEN <<Head(arts)>> \o StreamArtifacts(Tail(arts), stream)
         ELSE StreamArtifacts(Tail(arts), stream)

BlockArtifacts == StreamArtifacts(RunArtifacts, "blocks")
TransactionArtifacts == StreamArtifacts(RunArtifacts, "transactions")

C2_Monotonic ==
    RunSucceeded => CkptValue(store) >= CkptValue(storeAtStart)

\* C3: failure leaves the resumption point intact.  Once the fetch (or the
\* conversion) of block N has raised, the run is over, it did not succeed,
\* the store holds the last checkpoint saved before the failure (the value
\* at run start when there was none), and that value is below N.
C3_FailureKeepsCheckpoint ==
    failed # None =>
       /\ pc = "done"
       /\ exit # EntryReturn
       /\ exit.kind # "none"
       /\ store = (IF saves = <<>> THEN storeAtStart ELSE <<Last(saves)>>)
       /\ Persisted < failed

\* A cloud run that checkpointed block 2 on a threshold flush and then got
\* a body without "result" for block 3.
C3_Witness ==
    /\ failed = 3
    /\ last_response = Exc("ValueError", 0)
    /\ saves = <<2>>
    /\ store = <<2>>
    /\ pc = "done"

C5_EmptyRange ==
    (start # None /\ previous_block_number = latest_block_number) =>
       /\ requests = <<>>
       /\ RunArtifacts = <<>>
       /\ pc = "done" => (RunSucceeded /\ Persisted = latest_block_number)

\* A run that ended with checkpoint = latest = 2 at its start.
C5_Witness ==
    /\ RunSucceeded
    /\ previous_block_number = 2
    /\ latest_block_number = 2
    /\ storeAtStart = <<2>>
    /\ saves = <<2>>

\* The case of C6: a successful run from checkpoint c > 0 with
\* latest = c + 2 in which no size estimate reached the threshold.
C6_Case ==
    /\ RunSucceeded
    /\ previous_block_number > 0
    /\ latest_block_number = previous_block_number + 2
    /\ crossed = 0

C7_RateLimitRetried ==
    (variant = "cloud" /\ last_response = Exc("HTTPError", 429)) =>
       /\ pc = "fetch"
       /\ failed = None
       /\ exit = NoExit

\* C8: graceful exit.  Every run ends by returning: with the final block
\* number (latest) on success, with an error category and a message on
\* failure; no exception leaves the entry point.
C8_GracefulExit ==
    pc = "done" =>
       /\ exit.kind = "returned"
       /\ exit = EntryReturn => exit.last_block = latest_block_number
       /\ exit # EntryReturn => (exit.error # "" /\ exit.message # "")

\* C9: terminal status.  The status a run surfaces tells its outcome: no
\* two runs with different outcomes (success, partial-progress failure,
\* total failure) ended with the same status.
C9_StatusTellsOutcome ==
    \A a \in statusLog : \A b \in statusLog : a[2] = b[2] => a[1] = b[1]

\* C10: threshold-triggered flush.  Outside the flush itself no batch is
\* at or over the threshold (the batch was written and reset before the
\* next fetch, and the run did not stop on it), each crossing wrote exactly
\* one artifact, and after a flush in this iteration the batch of that
\* stream has the size estimate of a fresh one.
C10_ThresholdFlush ==
    /\ pc \in {"incr", "loop", "fetch", "done"} =>
          /\ get_size(blocks_data) < MAX_SIZE_BYTES
          /\ get_size(transactions_data) < MAX_SIZE_BYTES
    /\ pc \in {"incr", "loop", "fetch"} => Len(RunArtifacts) = crossed
    /\ (pc = "incr" /\ RunArtifacts # <<>>
        /\ Last(Last(RunArtifacts).recs).num = current_block_number) =>
          get_size(IF Last(RunArtifacts).name.stream = "blocks"
                   THEN blocks_data ELSE transactions_data) = get_size(<<>>)

\* A step that flushes an empty batch: the final flush of either stream,
\* or the size check of a stream whose batch is empty.
EmptyFlushStep ==
    \/ pc \in {"final_blocks", "check_blocks"} /\ blocks_data = <<>>
    \/ pc \in {"final_tx", "check_tx"} /\ transactions_data = <<>>

\* C11: empty flush is a no-op.  Under every configured threshold no
\* artifact with zero records is in the sink, and a flush step taken with
\* an empty batch leaves the sink and the checkpoint store as they were.
C11_EmptyFlushNoOp ==
    /\ [](\A i \in 1..Len(sink) : sink[i].recs # <<>>)
    /\ [][EmptyFlushStep => (sink' = sink /\ store' = store)]_vars

\* A cloud run under a threshold that an empty list reaches: the threshold
\* flush emptied the batch, and the final flush of the empty batch wrote
\* nothing.
C11_Witness ==
    /\ variant = "cloud"
    /\ threshold = EmptyListSize
    /\ pc = "final_save"
    /\ blocks_data = <<>>
    /\ crossed = 2
    /\ Len(RunArtifacts) = 2

\* The values of a sequence.
Range(q) == {q[i] : i \in 1..Len(q)}

\* C12: atomic replace of the checkpoint.  After a run that was not
\* interrupted and saved, the store holds exactly the last value saved; and
\* after an interrupted run that found a checkpoint, the store holds
\* exactly one value, the one the run found or one it saved or was saving.
C12_AtomicReplace ==
    /\ (pc = "done" /\ exit.kind # "killed" /\ saves # <<>>) =>
          store = <<Last(saves)>>
    /\ (pc = "done" /\ exit.kind = "killed" /\ storeAtStart # <<>>) =>
          /\ Len(store) = 1
          /\ Head(store) \in {Head(storeAtStart)} \cup Range(saves)
                               \cup {latest_block_number,
                                     current_block_number}

\* C13: bounded reprocessing on crash (cloud run).  At every point where
\* the run can be interrupted, an artifact of this run that holds a block
\* above the persisted checkpoint is the last one written and holds the
\* batch still in memory: the blocks the next run fetches again are those
\* of one batch.
C13_BoundedReprocessing ==
    variant = "cloud" =>
       \A i \in 1..Len(RunArtifacts) :
          (\E j \in 1..Len(RunArtifacts[i].recs) :
              RunArtifacts[i].recs[j].num > CkptValue(store))
          => (i = Len(RunArtifacts) /\ RunArtifacts[i].recs = blocks_data)

\* A cloud run interrupted after it flushed and checkpointed block 2 and
\* wrote the batch holding block 3, before the checkpoint of block 3.
C13_Witness ==
    /\ variant = "cloud"
    /\ pc = "done"
    /\ exit.kind = "killed"
    /\ saves = <<2>>
    /\ store = <<2>>
    /\ Len(RunArtifacts) = 2
    /\ Nums(blocks_data) = <<3>>

\* The flush the run is about to make, if any: the name it writes to.
FlushPending ==
    \/ pc = "flush_write"
    \/ pc = "check_blocks" /\ variant = "local"
          /\ get_size(blocks_data) >= MAX_SIZE_BYTES
    \/ pc = "check_tx" /\ get_size(transactions_data) >= MAX_SIZE_BYTES
    \/ pc = "final_blocks" /\ blocks_data # <<>>
    \/ pc = "final_tx" /\ transactions_data # <<>>

FlushTarget ==
    CASE pc = "flush_write" -> CloudName("blocks", blocks_file_index)
      [] pc = "check_blocks" -> LocalThresholdName("blocks", blocks_file_index)
      [] pc = "check_tx" ->
            LocalThresholdName("transactions", transactions_file_index)
      [] pc = "final_blocks" -> FinalName("blocks", blocks_file_index)
      [] OTHER -> FinalName("transactions", transactions_file_index)

\* C14: artifact names never collide.  Every flush writes to a name made of
\* the run timestamp and a sequence number above those of the stream's
\* earlier flushes in the run; the name is that of no artifact this run
\* wrote and of no artifact of a run with another timestamp; the names of
\* the run's artifacts are pairwise distinct.
C14_NamesNeverCollide ==
    /\ FlushPending =>
          /\ FlushTarget.ts = job_start_time
          /\ \A i \in 1..Len(RunArtifacts) :
                RunArtifacts[i].name.stream = FlushTarget.stream
                => RunArtifacts[i].name.idx < FlushTarget.idx
          /\ \A i \in 1..Len(sink) :
                (i > sinkBase \/ sink[i].name.ts # job_start_time)
                => sink[i].name # FlushTarget
    /\ \A i, j \in 1..Len(RunArtifacts) :
          i # j => RunArtifacts[i].name # RunArtifacts[j].name

(***************************************************************************)
(* The codec of the local run: safe_hex_to_int, convert_block_data and     *)
(* convert_transaction on the fields that carry a derived scaled value.    *)
(* A JSON value is null, a string "0x<digits>", an integer, or a float     *)
(* num / 10^exp.                                                           *)
(***************************************************************************)
MaxHexLen == 2
HexDigits == {0, 15}

JNull == [type |-> "null"]
JStr(digits) == [type |-> "str", hex |-> digits]
JInt(n) == [type |-> "int", v |-> n]
JFloat(n, e) == [type |-> "float", num |-> n, exp |-> e]

HexStrings ==
    {JStr(d) : d \in UNION {[1..k -> HexDigits] : k \in 1..MaxHexLen}}
HexFields == {JNull} \cup HexStrings

RECURSIVE HexValue(_)
HexValue(digits) ==
    IF digits = <<>> THEN 0
    ELSE 16 * HexValue(SubSeq(digits, 1, Len(digits) - 1))
         + digits[Len(digits)]

\* The exception a conversion raised.
Throws(cls) == [type |-> "raised", e |-> cls]

\* int(hex_str, 16) if hex_str is not None else default (default None)
safe_hex_to_int(hex_str) ==
    IF hex_str # JNull THEN JInt(HexValue(hex_str.hex)) ELSE JNull

\* Python truth value of tx.get(...): None is false, a string is true
\* unless it is empty ("0x" and the digits make it non-empty).
Truthy(x) == x # JNull /\ Len(x.hex) + 2 > 0

\* x / 1eN: TypeError when x is None.
Div(x, e) == IF x = JNull THEN Throws("TypeError") ELSE JFloat(x.v, e)

\* The first exception among the values of a dict display, evaluated in
\* order; JNull when none raises.
RECURSIVE FirstRaised(_)
FirstRaised(values) ==
    IF values = <<>> THEN JNull
    ELSE IF Head(values).type = "raised" THEN Head(values)
    ELSE FirstRaised(Tail(values))

\* convert_transaction, the entries with a derived value.
convert_transaction_fields(tx) ==
    [gasPrice |-> safe_hex_to_int(tx.gasPrice),
     gasPrice_gwei |-> IF Truthy(tx.gasPrice)
                       THEN Div(safe_hex_to_int(tx.gasPrice), 9) ELSE JNull,
     maxFeePerGas |-> safe_hex_to_int(tx.maxFeePerGas),
     maxFeePerGas_gwei |-> IF Truthy(tx.maxFeePerGas)
                           THEN Div(safe_hex_to_int(tx.maxFeePerGas), 9)
                           ELSE JNull,
     maxPriorityFeePerGas |-> safe_hex_to_int(tx.maxPriorityFeePerGas),
     maxPriorityFeePerGas_gwei |->
         IF Truthy(tx.maxPriorityFeePerGas)
         THEN Div(safe_hex_to_int(tx.maxPriorityFeePerGas), 9) ELSE JNull,
     value |-> safe_hex_to_int(tx.value),
     value_eth |-> IF tx.value # JNull
                   THEN Div(safe_hex_to_int(tx.value), 18) ELSE JNull]

\* convert_block_data, the entries with a derived value.
convert_block_fields(block_data) ==
    [baseFeePerGas |-> safe_hex_to_int(block_data.baseFeePerGas),
     baseFeePerGas_gwei |-> Div(safe_hex_to_int(block_data.baseFeePerGas), 9)]

RawBlocks == [baseFeePerGas : HexFields]
RawTransactions ==
    [gasPrice : HexFields, maxFeePerGas : HexFields,
     maxPriorityFeePerGas : HexFields, value : HexFields]

\* The call returns the dict, or raises what the first failing entry
\* raised.
Call(of, raw, out, entries) ==
    [kind |-> IF FirstRaised(entries) = JNull THEN "returned" ELSE "raised",
     of |-> of, raw |-> raw, out |-> out, e |-> FirstRaised(entries)]

InitCodec ==
    /\ InitState
    /\ variant = "local"
    /\ store = <<>>
    /\ threshold = ConfiguredThreshold
    /\ codec \in [kind : {"raw"}, of : {"block"}, raw : RawBlocks]
                 \cup [kind : {"raw"}, of : {"transaction"},
                       raw : RawTransactions]

ConvertBlock ==
    /\ codec.kind = "raw"
    /\ codec.of = "block"
    /\ LET out == convert_block_fields(codec.raw) IN
         codec' = Call("block", codec.raw, out,
                       <<out.baseFeePerGas, out.baseFeePerGas_gwei>>)
    /\ UNCHANGED <<variant, threshold, store, sink, clock, runs, pc, locals,
                   exit, history, statusLog>>

ConvertTransaction ==
    /\ codec.kind = "raw"
    /\ codec.of = "transaction"
    /\ LET out == convert_transaction_fields(codec.raw) IN
         codec' = Call("transaction", codec.raw, out,
                       <<out.gasPrice, out.gasPrice_gwei, out.maxFeePerGas,
                         out.maxFeePerGas_gwei, out.maxPriorityFeePerGas,
                         out.maxPriorityFeePerGas_gwei, out.value,
                         out.value_eth>>)
    /\ UNCHANGED <<variant, threshold, store, sink, clock, runs, pc, locals,
                   exit, history, statusLog>>

NextCodec == ConvertBlock \/ ConvertTransaction

SpecCodec == InitCodec /\ [][NextCodec]_vars

\* The fields of the claim and their derived fields.
Derived(of) ==
    IF of = "block" THEN {<<"baseFeePerGas", "baseFeePerGas_gwei">>}
    ELSE {<<"gasPrice", "gasPrice_gwei">>,
          <<"maxFeePerGas", "maxFeePerGas_gwei">>,
          <<"maxPriorityFeePerGas", "maxPriorityFeePerGas_gwei">>,
          <<"value", "value_eth">>}

\* C15: codec totality over null fields.  A conversion never fails; a null
\* field gives a null converted field and a null derived field; a present
\* field, one encoding zero included, gives an integer and a non-null
\* derived value.
C15_CodecTotal ==
    codec.kind \in {"returned", "raised"} =>
       /\ codec.kind = "returned"
       /\ \A f \in Derived(codec.of) :
             IF codec.raw[f[1]] = JNull
             THEN codec.out[f[1]] = JNull /\ codec.out[f[2]] = JNull
             ELSE /\ codec.out[f[1]] = JInt(HexValue(codec.raw[f[1]].hex))
                  /\ codec.out[f[2]].type = "float"

\* The records of a sequence of artifacts, one after the other.
RECURSIVE Concat(_)
Concat(arts) ==
    IF arts = <<>> THEN <<>> ELSE Head(arts).recs \o Concat(Tail(arts))

AllRecords ==
    {blocks_data[i] : i \in 1..Len(blocks_data)}
    \cup {transactions_data[i] : i \in 1..Len(transactions_data)}
    \cup UNION {{sink[i].recs[j] : j \in 1..Len(sink[i].recs)} :
                   i \in 1..Len(sink)}

NullBlocks ==
    {r.num : r \in {x \in {blocks_data[i] : i \in 1..Len(blocks_data)}
                           \cup {Concat(RunArtifacts)[i] :
                                    i \in 1..Len(Concat(RunArtifacts))} :
                       x.form = "null"}}
    \cup (IF last_response = Exc("null", 0) /\ failed # None
          THEN {failed} ELSE {})

\* C18: a null block is never counted as processed.  No artifact holds a
\* null record, and no checkpoint this run saved is at or above a block
\* the endpoint answered with null.
C18_NullNotProcessed ==
    /\ \A r \in AllRecords : InSink(r) => r.form # "null"
    /\ \A n \in NullBlocks : \A k \in 1..Len(saves) : saves[k] < n

\* A step of the run under way.  The entry point is one thread of control
\* whose statements each return (every request is answered): a run that
\* can take a step takes it.
RunStep == pc \notin {"idle", "done"} /\ Next

SpecFair == Init /\ [][Next]_vars /\ WF_vars(RunStep)

\* The run is over: it returned with the checkpoint saved as latest, or it
\* left by its failure exit.
RunEnded ==
    /\ pc = "done"
    /\ exit = EntryReturn =>
          Persisted = latest_block_number /\ Last(saves) = latest_block_number

\* C19: run termination.  Within a run the latest block number, once read,
\* does not change; the current block number, once set, changes only at
\* the end of a loop iteration, by exactly one; and every run under way
\* reaches its end or its failure exit.
C19_RunTerminates ==
    /\ [][(pc \notin {"idle", "done"} /\ latest_block_number # None)
             => latest_block_number' = latest_block_number]_vars
    /\ [][(pc \notin {"idle", "done"} /\ current_block_number # None) =>
             IF pc = "incr"
             THEN current_block_number' = current_block_number + 1
             ELSE current_block_number' = current_block_number]_vars
    /\ (pc \notin {"idle", "done"}) ~> RunEnded

\* A run that went through the loop twice and returned.
C19_Witness ==
    /\ RunSucceeded
    /\ RunEnded
    /\ Len(requests) = 2
    /\ current_block_number = latest_block_number + 1

=============================================================================
